---- MODULE Spec2Model ----
(***************************************************************************)
(* A model of russimp's conversion boundary (src/lib.rs): the raw-array    *)
(* extraction routines of `utils`, the aiMatrix4x4 -> Mat4 conversion and  *)
(* the RussimpError type with its Display and From implementations.        *)
(*                                                                         *)
(* Native memory is a heap of three-float structs (the layout shared by    *)
(* aiColor3D {r,g,b} and aiVector3D {x,y,z}) at addresses 1..MemSize, and  *)
(* a table of pointers to such structs.  Address 0 is the null pointer.    *)
(* Every routine is an operator computed the way the code computes it; an  *)
(* action applies one routine once to inputs drawn from bounded sets.      *)
(***************************************************************************)
EXTENDS Integers, Sequences, FiniteSets, TLC

VARIABLES mem, ptrs, phase, call, result, outcome, reads

vars == <<mem, ptrs, phase, call, result, outcome, reads>>

(***************************************************************************)
(* Bounds of the model.                                                    *)
(***************************************************************************)
\* number of structs in the native heap
MemSize == 3
\* largest declared length passed to a routine
MaxLen == 3
\* largest valid_up_to index of a Utf8Error
MaxIdx == 3

(***************************************************************************)
(* Native memory.                                                          *)
(***************************************************************************)
\* the null pointer
NULL == 0

\* the channel slots of the native format, [*mut TRaw; 8usize]
NumSlots == 8

\* a native struct TRaw: three f32 fields in declaration order
Raw(f) == [ty |-> "TRaw", f |-> f]

\* sample native structs
Cells == {Raw(<<1, 2, 3>>), Raw(<<4, 5, 6>>)}

\* what a struct's bytes hold once the native side released it
Freed == Raw(<<0, 0, 0>>)

Addrs == 1..MemSize

\* the native pointer table: the structs in reverse order, a null entry,
\* then the structs in order
PtrTable ==
    [i \in 1..(2 * MemSize + 1) |->
        IF i <= MemSize THEN MemSize + 1 - i
        ELSE IF i = MemSize + 1 THEN NULL
        ELSE i - MemSize - 1]

(***************************************************************************)
(* Value types and the conversion traits.                                  *)
(***************************************************************************)
\* impl From<&aiColor3D> for Color3D
Color3D_from(color) ==
    [ty |-> "Color3D", r |-> color.f[1], g |-> color.f[2], b |-> color.f[3]]

\* glam::Vec3::new
Vec3_new(x, y, z) == [ty |-> "Vec3", x |-> x, y |-> y, z |-> z]

\* impl ConvertInto<Vec3> for aiVector3D
aiVector3D_convert_into(self) == Vec3_new(self.f[1], self.f[2], self.f[3])

\* glam::vec4
vec4(x, y, z, w) == [x |-> x, y |-> y, z |-> z, w |-> w]

\* glam::Mat4::from_cols: the matrix is held as its four columns
Mat4_from_cols(x_axis, y_axis, z_axis, w_axis) ==
    [x_axis |-> x_axis, y_axis |-> y_axis, z_axis |-> z_axis, w_axis |-> w_axis]

\* a slip that builds the target's columns from the native rows
aiMatrix4x4_convert_into_rows(self) ==
    Mat4_from_cols(
        vec4(self.a1, self.a2, self.a3, self.a4),
        vec4(self.b1, self.b2, self.b3, self.b4),
        vec4(self.c1, self.c2, self.c3, self.c4),
        vec4(self.d1, self.d2, self.d3, self.d4))

\* impl ConvertInto<Mat4> for &aiMatrix4x4
aiMatrix4x4_convert_into(self) ==
    Mat4_from_cols(
        vec4(self.a1, self.b1, self.c1, self.d1),
        vec4(self.a2, self.b2, self.c2, self.d2),
        vec4(self.a3, self.b3, self.c3, self.d3),
        vec4(self.a4, self.b4, self.c4, self.d4))

(***************************************************************************)
(* RussimpError, its Display and its From conversions.                     *)
(***************************************************************************)
Import(content) == [tag |-> "Import", msg |-> content]
MetadataError(content) == [tag |-> "MetadataError", msg |-> content]
MaterialError(content) == [tag |-> "MaterialError", msg |-> content]
Primitive(content) == [tag |-> "Primitive", msg |-> content]
TextureNotFound == [tag |-> "TextureNotFound"]

\* a Display that renders the message of every variant carrying one
RussimpError_fmt_message(self) ==
    IF self.tag = "TextureNotFound" THEN "unknown error" ELSE self.msg

\* impl Display for RussimpError: the text written to the formatter
RussimpError_fmt(self) ==
    IF self.tag = "Import" THEN self.msg ELSE "unknown error"

\* core::str::Utf8Error: valid_up_to and error_len (0 stands for None)
Utf8Error(valid_up_to, error_len) ==
    [valid_up_to |-> valid_up_to, error_len |-> error_len]

\* <Utf8Error as Display>::to_string
Utf8Error_to_string(val) ==
    IF val.error_len # 0
    THEN "invalid utf-8 sequence of " \o ToString(val.error_len)
         \o " bytes from index " \o ToString(val.valid_up_to)
    ELSE "incomplete utf-8 byte sequence from index " \o ToString(val.valid_up_to)

\* <IntoStringError as Display>::to_string
IntoStringError_to_string(val) == "C string contained non-utf8 bytes"

\* a conversion that files the decoding failure under the wrong variant
from_Utf8Error_import(val) == Import(Utf8Error_to_string(val))

\* impl From<Utf8Error> for RussimpError
from_Utf8Error(val) == Primitive(Utf8Error_to_string(val))

\* impl From<IntoStringError> for RussimpError
from_IntoStringError(val) == Primitive(IntoStringError_to_string(val))

\* TRaw: Clone, for the plain-data native structs: a bitwise copy
Clone(x) == Raw(<<x.f[1], x.f[2], x.f[3]>>)

\* a borrowed &'a TRaw: the address of the pointee in native memory
Ref(addr) == [ty |-> "Ref", addr |-> addr]

(***************************************************************************)
(* Outcomes of a call: it returns a value, panics (unwrap on None) or the  *)
(* process faults on an out-of-bounds read (undefined behaviour).          *)
(***************************************************************************)
Ok(v, rd) == [outcome |-> "ok", value |-> v, reads |-> rd]
Panicked(rd) == [outcome |-> "panic", value |-> <<>>, reads |-> rd]
Faulted(rd) == [outcome |-> "fault", value |-> <<>>, reads |-> rd]

None == [tag |-> "None"]
Some(v) == [tag |-> "Some", val |-> v]

\* std::ptr::slice_from_raw_parts: a slice descriptor, no memory access
slice_from_raw_parts(data, len) == [data |-> data, len |-> len]

\* <*const [T]>::is_null: the descriptor's data pointer is null
is_null(slice) == slice.data = NULL

\* whether the declared length describes memory of the heap `m`
InBounds(m, slice) ==
    \A i \in 1..slice.len : (slice.data + i - 1) \in DOMAIN m

\* the i-th element behind a slice: the heap's, or whatever an
\* out-of-bounds read finds at that address (garbage maps addresses to it)
ElemAt(m, slice, i, garbage) ==
    IF (slice.data + i - 1) \in DOMAIN m
    THEN m[slice.data + i - 1]
    ELSE garbage[slice.data + i - 1]

\* the addresses past the heap `m` that a slice of len elements at `raw`
\* covers; a null `raw` is never read
OutOfBounds(m, raw, len) ==
    IF raw = NULL THEN {}
    ELSE {raw + i - 1 : i \in 1..len} \ DOMAIN m

\* a non-null pointer to memory that is not mapped
Wild == MemSize + 101

\* sample contents of memory past a buffer: structs like the buffer's, and
\* bytes that are no struct the native side wrote
GarbageCells == Cells \cup {Raw(<<7, 8, 9>>)}

\* sample contents of memory past a pointer array: null, pointers to
\* structs, a pointer to unmapped memory
GarbagePtrs == {NULL} \cup Addrs \cup {Wild}

\* a call that meets no undefined behaviour
NoUB == [fault |-> FALSE, garbage |-> <<>>, gptr |-> <<>>, pfault |-> FALSE]

\* the addresses an iteration over the slice reads
SliceReads(heap, slice) ==
    {<<heap, slice.data + i - 1>> : i \in 1..slice.len}

(***************************************************************************)
(* utils: the extraction routines.  `ub` resolves undefined behaviour:     *)
(* ub.fault says whether a read past the buffer faults; otherwise          *)
(* ub.garbage[a] is the struct and ub.gptr[a] the pointer found at each    *)
(* address a past the buffer.  ub.pfault says whether following a pointer  *)
(* to unmapped memory faults.                                              *)
(***************************************************************************)
\* get_vec without its null check
get_vec_unchecked(m, raw, len, ub) ==
    LET slice == slice_from_raw_parts(raw, len) IN
    IF is_null(slice) /\ len > 0 THEN Faulted(SliceReads("mem", slice))
    ELSE IF ~InBounds(m, slice) /\ ub.fault THEN Faulted(SliceReads("mem", slice))
    ELSE Ok([i \in 1..len |-> Color3D_from(ElemAt(m, slice, i, ub.garbage))],
            SliceReads("mem", slice))

get_vec(m, raw, len, ub) ==
    LET slice == slice_from_raw_parts(raw, len) IN
    IF is_null(slice) THEN Ok(<<>>, {})
    ELSE IF ~InBounds(m, slice) /\ ub.fault THEN Faulted(SliceReads("mem", slice))
    ELSE Ok([i \in 1..len |-> Color3D_from(ElemAt(m, slice, i, ub.garbage))],
            SliceReads("mem", slice))

\* get_vec_2 with an iteration that starts one element late
get_vec_2_skip(m, raw, len, ub) ==
    LET slice == slice_from_raw_parts(raw, len) IN
    IF is_null(slice) THEN Ok(<<>>, {})
    ELSE IF ~InBounds(m, slice) /\ ub.fault THEN Faulted(SliceReads("mem", slice))
    ELSE Ok([i \in 1..(len - 1) |->
                aiVector3D_convert_into(ElemAt(m, slice, i + 1, ub.garbage))],
            SliceReads("mem", slice))

get_vec_2(m, raw, len, ub) ==
    LET slice == slice_from_raw_parts(raw, len) IN
    IF is_null(slice) THEN Ok(<<>>, {})
    ELSE IF ~InBounds(m, slice) /\ ub.fault THEN Faulted(SliceReads("mem", slice))
    ELSE Ok([i \in 1..len |-> aiVector3D_convert_into(ElemAt(m, slice, i, ub.garbage))],
            SliceReads("mem", slice))

\* get_raw_vec collecting borrows of the elements instead of clones
get_raw_vec_borrowed(m, raw, len, ub) ==
    LET slice == slice_from_raw_parts(raw, len) IN
    IF is_null(slice) THEN Ok(<<>>, {})
    ELSE Ok([i \in 1..len |-> Ref(raw + i - 1)], {})

get_raw_vec(m, raw, len, ub) ==
    LET slice == slice_from_raw_parts(raw, len) IN
    IF is_null(slice) THEN Ok(<<>>, {})
    ELSE IF ~InBounds(m, slice) /\ ub.fault THEN Faulted(SliceReads("mem", slice))
    ELSE Ok([i \in 1..len |-> Clone(ElemAt(m, slice, i, ub.garbage))],
            SliceReads("mem", slice))

\* the entries behind a slice of the pointer table, as the iteration meets them
TableEntries(t, slice, gptr) ==
    [i \in 1..slice.len |-> ElemAt(t, slice, i, gptr)]

\* raw.iter().map(|x| (unsafe { x.as_ref() }.unwrap()).into()).collect():
\* entries are visited in order, a null entry panics in unwrap
RECURSIVE from_raw_iter(_, _, _, _, _, _, _)
from_raw_iter(m, slice, entries, i, acc, rd, ub) ==
    IF i > Len(entries) THEN Ok(acc, rd)
    ELSE LET x == entries[i]
             seen == rd \cup {<<"ptrs", slice.data + i - 1>>}
         IN  IF x = NULL THEN Panicked(seen)
             ELSE IF x \notin DOMAIN m /\ ub.pfault
             THEN Faulted(seen \cup {<<"mem", x>>})
             ELSE from_raw_iter(m, slice, entries, i + 1,
                    Append(acc, Color3D_from(
                        IF x \in DOMAIN m THEN m[x] ELSE ub.garbage[x])),
                    seen \cup {<<"mem", x>>}, ub)

\* get_vec_from_raw reading the structs as one array behind the first entry
get_vec_from_raw_contiguous(m, t, raw_source, num_raw_items, ub) ==
    LET slice == slice_from_raw_parts(raw_source, num_raw_items) IN
    IF is_null(slice) \/ num_raw_items = 0 THEN Ok(<<>>, {})
    ELSE IF ~InBounds(t, slice) /\ ub.fault THEN Faulted(SliceReads("ptrs", slice))
    ELSE get_vec(m, ElemAt(t, slice, 1, ub.gptr), num_raw_items,
                 [fault |-> FALSE, garbage |-> [a \in 0..(Wild + MaxLen) |-> Freed],
                  gptr |-> <<>>, pfault |-> FALSE])

get_vec_from_raw(m, t, raw_source, num_raw_items, ub) ==
    LET slice == slice_from_raw_parts(raw_source, num_raw_items) IN
    IF is_null(slice) THEN Ok(<<>>, {})
    ELSE IF ~InBounds(t, slice) /\ ub.fault THEN Faulted(SliceReads("ptrs", slice))
    ELSE from_raw_iter(m, slice, TableEntries(t, slice, ub.gptr), 1, <<>>, {}, ub)

\* raw.iter().map(|x| unsafe { x.as_ref() }.unwrap()).collect(): the
\* pointees are borrowed, not read
RECURSIVE base_type_iter(_, _, _, _, _)
base_type_iter(slice, entries, i, acc, rd) ==
    IF i > Len(entries) THEN Ok(acc, rd)
    ELSE LET x == entries[i]
             seen == rd \cup {<<"ptrs", slice.data + i - 1>>}
         IN  IF x = NULL THEN Panicked(seen)
             ELSE base_type_iter(slice, entries, i + 1, Append(acc, Ref(x)), seen)

get_base_type_vec_from_raw(t, data, len, ub) ==
    LET slice == slice_from_raw_parts(data, len) IN
    IF is_null(slice) THEN Ok(<<>>, {})
    ELSE IF ~InBounds(t, slice) /\ ub.fault THEN Faulted(SliceReads("ptrs", slice))
    ELSE base_type_iter(slice, TableEntries(t, slice, ub.gptr), 1, <<>>, {})

\* the union of the reads of the calls made for the non-null slots
SlotReads(raw, per) ==
    UNION {per[i].reads : i \in {j \in DOMAIN raw : raw[j] # NULL}}

\* whether a call made for a non-null slot faulted
SlotFault(raw, per) ==
    \E i \in DOMAIN raw : raw[i] # NULL /\ per[i].outcome = "fault"

\* the sequence `s` without its None entries
RECURSIVE Flatten(_)
Flatten(s) ==
    IF s = <<>> THEN <<>>
    ELSE IF Head(s) = None THEN Flatten(Tail(s))
    ELSE <<Head(s)>> \o Flatten(Tail(s))

\* get_vec_of_vecs_from_raw dropping the absent channels (filter_map)
get_vec_of_vecs_from_raw_present(m, raw, len, ub) ==
    LET per == [i \in DOMAIN raw |-> get_vec(m, raw[i], len, ub)] IN
    IF SlotFault(raw, per) THEN Faulted(SlotReads(raw, per))
    ELSE Ok(Flatten([i \in DOMAIN raw |->
                IF raw[i] = NULL THEN None ELSE Some(per[i].value)]),
            SlotReads(raw, per))

get_vec_of_vecs_from_raw(m, raw, len, ub) ==
    LET per == [i \in DOMAIN raw |-> get_vec(m, raw[i], len, ub)] IN
    IF SlotFault(raw, per) THEN Faulted(SlotReads(raw, per))
    ELSE Ok([i \in DOMAIN raw |->
                IF raw[i] = NULL THEN None ELSE Some(per[i].value)],
            SlotReads(raw, per))

\* get_vec_of_vecs_from_raw_2 passing every slot, null or not, to get_vec_2
get_vec_of_vecs_from_raw_2_all(m, raw, len, ub) ==
    LET per == [i \in DOMAIN raw |-> get_vec_2(m, raw[i], len, ub)] IN
    IF SlotFault(raw, per) THEN Faulted(SlotReads(raw, per))
    ELSE Ok([i \in DOMAIN raw |-> Some(per[i].value)], SlotReads(raw, per))

get_vec_of_vecs_from_raw_2(m, raw, len, ub) ==
    LET per == [i \in DOMAIN raw |-> get_vec_2(m, raw[i], len, ub)] IN
    IF SlotFault(raw, per) THEN Faulted(SlotReads(raw, per))
    ELSE Ok([i \in DOMAIN raw |->
                IF raw[i] = NULL THEN None ELSE Some(per[i].value)],
            SlotReads(raw, per))

(***************************************************************************)
(* Inputs.                                                                 *)
(***************************************************************************)
\* pointers into the struct heap: null, every struct, one past the end
RawPtrs == 0..(MemSize + 1)

\* pointers into the pointer table: null, every entry, one past the end
TablePtrs == 0..(Len(PtrTable) + 1)

Lens == 0..MaxLen

\* the ways reads of the addresses `oob` past the struct heap can end: a
\* fault, or one struct found at each address
UBMem(oob) ==
    IF oob = {} THEN {NoUB}
    ELSE {[fault |-> TRUE, garbage |-> <<>>, gptr |-> <<>>, pfault |-> FALSE]}
            \cup {[fault |-> FALSE, garbage |-> g, gptr |-> <<>>, pfault |-> FALSE] :
                    g \in [oob -> GarbageCells]}

\* the ways reads of the entries `oob` past the pointer table can end: a
\* fault, or one pointer found at each entry; following a pointer to
\* unmapped memory faults or finds some struct there
UBPtr(oob) ==
    IF oob = {} THEN {NoUB}
    ELSE {[fault |-> TRUE, garbage |-> <<>>, gptr |-> <<>>, pfault |-> FALSE]}
            \cup {[fault |-> FALSE, garbage |-> c, gptr |-> g, pfault |-> pf] :
                    g \in [oob -> GarbagePtrs], pf \in BOOLEAN,
                    c \in [{Wild} -> GarbageCells]}

\* the eight channel pointers: the slots in `nulls` are null, the others
\* point at the first struct (odd slots) or at struct b (even slots)
ChannelSlots(nulls, b) ==
    [i \in 1..NumSlots |->
        IF i \in nulls THEN NULL ELSE IF i % 2 = 0 THEN b ELSE 1]

\* the addresses past the heap that the non-null slots of `raw` cover
ChannelOutOfBounds(m, raw, len) ==
    UNION {OutOfBounds(m, raw[i], len) : i \in DOMAIN raw}

(***************************************************************************)
(* The state machine: one call of one routine, then the native side may    *)
(* release its memory.                                                     *)
(***************************************************************************)
NoCall == [fn |-> "none"]

Init ==
    /\ mem \in [Addrs -> Cells]
    /\ ptrs = PtrTable
    /\ phase = "idle"
    /\ call = NoCall
    /\ result = <<>>
    /\ outcome = "none"
    /\ reads = {}

\* the call `c` ended as `r`
Return(c, r) ==
    /\ phase' = "returned"
    /\ call' = c
    /\ result' = r.value
    /\ outcome' = r.outcome
    /\ reads' = r.reads
    /\ UNCHANGED <<mem, ptrs>>

Call_get_vec ==
    /\ phase = "idle"
    /\ \E raw \in RawPtrs, len \in Lens :
       \E ub \in UBMem(OutOfBounds(mem, raw, len)) :
            Return([fn |-> "get_vec", raw |-> raw, len |-> len],
                   get_vec(mem, raw, len, ub))

Call_get_vec_2 ==
    /\ phase = "idle"
    /\ \E raw \in RawPtrs, len \in Lens :
       \E ub \in UBMem(OutOfBounds(mem, raw, len)) :
            Return([fn |-> "get_vec_2", raw |-> raw, len |-> len],
                   get_vec_2(mem, raw, len, ub))

Call_get_raw_vec ==
    /\ phase = "idle"
    /\ \E raw \in RawPtrs, len \in Lens :
       \E ub \in UBMem(OutOfBounds(mem, raw, len)) :
            Return([fn |-> "get_raw_vec", raw |-> raw, len |-> len],
                   get_raw_vec(mem, raw, len, ub))

Call_get_vec_from_raw ==
    /\ phase = "idle"
    /\ \E raw \in TablePtrs, len \in Lens :
       \E ub \in UBPtr(OutOfBounds(ptrs, raw, len)) :
            Return([fn |-> "get_vec_from_raw", raw |-> raw, len |-> len],
                   get_vec_from_raw(mem, ptrs, raw, len, ub))

Call_get_base_type_vec_from_raw ==
    /\ phase = "idle"
    /\ \E raw \in TablePtrs, len \in Lens :
       \E ub \in UBPtr(OutOfBounds(ptrs, raw, len)) :
            Return([fn |-> "get_base_type_vec_from_raw", raw |-> raw, len |-> len],
                   get_base_type_vec_from_raw(ptrs, raw, len, ub))

Call_get_vec_of_vecs_from_raw ==
    /\ phase = "idle"
    /\ \E nulls \in SUBSET (1..NumSlots), b \in Addrs, len \in Lens :
       \E ub \in UBMem(ChannelOutOfBounds(mem, ChannelSlots(nulls, b), len)) :
            Return([fn |-> "get_vec_of_vecs_from_raw",
                    raw |-> ChannelSlots(nulls, b), len |-> len],
                   get_vec_of_vecs_from_raw(mem, ChannelSlots(nulls, b), len, ub))

Call_get_vec_of_vecs_from_raw_2 ==
    /\ phase = "idle"
    /\ \E nulls \in SUBSET (1..NumSlots), b \in Addrs, len \in Lens :
       \E ub \in UBMem(ChannelOutOfBounds(mem, ChannelSlots(nulls, b), len)) :
            Return([fn |-> "get_vec_of_vecs_from_raw_2",
                    raw |-> ChannelSlots(nulls, b), len |-> len],
                   get_vec_of_vecs_from_raw_2(mem, ChannelSlots(nulls, b), len, ub))

\* the native side releases the scene: the structs' bytes are gone
FreeNative ==
    /\ phase = "returned"
    /\ phase' = "freed"
    /\ mem' = [a \in DOMAIN mem |-> Freed]
    /\ UNCHANGED <<ptrs, call, result, outcome, reads>>

Next ==
    \/ Call_get_vec
    \/ Call_get_vec_2
    \/ Call_get_raw_vec
    \/ Call_get_vec_from_raw
    \/ Call_get_base_type_vec_from_raw
    \/ Call_get_vec_of_vecs_from_raw
    \/ Call_get_vec_of_vecs_from_raw_2
    \/ FreeNative

Spec == Init /\ [][Next]_vars

(***************************************************************************)
(* The matrix conversion applied to one native matrix.                     *)
(***************************************************************************)
\* sample f32 values
F32 == {0, 1}

\* the fields of aiMatrix4x4: a1..a4 is the first row, d1..d4 the last
MatFields ==
    {"a1", "a2", "a3", "a4", "b1", "b2", "b3", "b4",
     "c1", "c2", "c3", "c4", "d1", "d2", "d3", "d4"}

AiMatrices == [MatFields -> F32]

InitNoHeap ==
    /\ mem = <<>>
    /\ ptrs = <<>>
    /\ phase = "idle"
    /\ call = NoCall
    /\ result = <<>>
    /\ outcome = "none"
    /\ reads = {}

Call_convert_into_Mat4 ==
    /\ phase = "idle"
    /\ \E m \in AiMatrices :
            Return([fn |-> "convert_into_Mat4", self |-> m],
                   Ok(aiMatrix4x4_convert_into(m), {}))

NextMat == Call_convert_into_Mat4

SpecMat == InitNoHeap /\ [][NextMat]_vars

(***************************************************************************)
(* The error type: one Display or one From conversion.                     *)
(***************************************************************************)
\* decoding failures: error_len is None (0) or 1..3 bytes
Utf8Errors == {Utf8Error(i, n) : i \in 0..MaxIdx, n \in 0..3}

\* an IntoStringError carries the Utf8Error of the failed decoding
IntoStringErrors == {[error |-> u] : u \in Utf8Errors}

Messages ==
    {"", "bad file", "unknown error"}
        \cup {Utf8Error_to_string(u) : u \in Utf8Errors}
        \cup {IntoStringError_to_string(e) : e \in IntoStringErrors}

Errors ==
    {Import(s) : s \in Messages} \cup {MetadataError(s) : s \in Messages}
        \cup {MaterialError(s) : s \in Messages}
        \cup {Primitive(s) : s \in Messages} \cup {TextureNotFound}

Call_fmt ==
    /\ phase = "idle"
    /\ \E e \in Errors :
            Return([fn |-> "fmt", self |-> e], Ok(RussimpError_fmt(e), {}))

Call_from_Utf8Error ==
    /\ phase = "idle"
    /\ \E u \in Utf8Errors :
            Return([fn |-> "from_Utf8Error", val |-> u], Ok(from_Utf8Error(u), {}))

Call_from_IntoStringError ==
    /\ phase = "idle"
    /\ \E e \in IntoStringErrors :
            Return([fn |-> "from_IntoStringError", val |-> e],
                   Ok(from_IntoStringError(e), {}))

NextErr ==
    \/ Call_fmt
    \/ Call_from_Utf8Error
    \/ Call_from_IntoStringError

SpecErr == InitNoHeap /\ [][NextErr]_vars

(***************************************************************************)
(* Vocabulary of the properties.                                           *)
(***************************************************************************)
SingleFns == {"get_vec", "get_vec_2", "get_raw_vec"}
TableFns == {"get_vec_from_raw", "get_base_type_vec_from_raw"}
ChannelFns == {"get_vec_of_vecs_from_raw", "get_vec_of_vecs_from_raw_2"}

\* the six extraction routines
ExtractionFns == SingleFns \cup {"get_vec_from_raw"} \cup ChannelFns

Called == phase # "idle"

\* the channel slots of the call that hold a pointer
NonNullSlots == {i \in DOMAIN call.raw : call.raw[i] # NULL}

\* the positions of the result that hold Some(..)
SomeEntries == {i \in DOMAIN result : result[i].tag = "Some"}

\* len elements starting at `p` lie inside a heap of `size` elements
Within(p, len, size) == \A i \in 1..len : (p + i - 1) \in 1..size

\* the declared length of the call describes the native buffer it names
Accurate ==
    CASE call.fn \in SingleFns ->
            call.raw = NULL \/ Within(call.raw, call.len, MemSize)
      [] call.fn \in TableFns ->
            call.raw = NULL \/ Within(call.raw, call.len, Len(PtrTable))
      [] call.fn \in ChannelFns ->
            \A i \in NonNullSlots : Within(call.raw[i], call.len, MemSize)
      [] OTHER -> TRUE

\* what the element type of the call's result is converted from a struct to
Expected(fn, cell) ==
    CASE fn \in {"get_vec", "get_vec_from_raw", "get_vec_of_vecs_from_raw"} ->
            [ty |-> "Color3D", r |-> cell.f[1], g |-> cell.f[2], b |-> cell.f[3]]
      [] fn \in {"get_vec_2", "get_vec_of_vecs_from_raw_2"} ->
            [ty |-> "Vec3", x |-> cell.f[1], y |-> cell.f[2], z |-> cell.f[3]]
      [] fn = "get_raw_vec" -> cell

\* what a holder of the sequence `s` sees in it, following borrows into `m`
ObserveSeq(s, m) ==
    [i \in DOMAIN s |->
        IF s[i].ty = "Ref" /\ s[i].addr \in DOMAIN m THEN m[s[i].addr] ELSE s[i]]

\* what a holder of the call's result sees in it
Observe(r, m) ==
    IF call.fn \in ChannelFns
    THEN [i \in DOMAIN r |->
            IF r[i].tag = "Some" THEN Some(ObserveSeq(r[i].val, m)) ELSE None]
    ELSE ObserveSeq(r, m)

\* the native field of row r, column c
NativeField == <<<<"a1", "a2", "a3", "a4">>, <<"b1", "b2", "b3", "b4">>,
                 <<"c1", "c2", "c3", "c4">>, <<"d1", "d2", "d3", "d4">>>>

\* column c of a target matrix, as the sequence of its components
Column(m, c) ==
    LET col == CASE c = 1 -> m.x_axis [] c = 2 -> m.y_axis
                 [] c = 3 -> m.z_axis [] c = 4 -> m.w_axis
    IN  <<col.x, col.y, col.z, col.w>>

\* glam::Mat4::IDENTITY
Mat4_IDENTITY ==
    [x_axis |-> [x |-> 1, y |-> 0, z |-> 0, w |-> 0],
     y_axis |-> [x |-> 0, y |-> 1, z |-> 0, w |-> 0],
     z_axis |-> [x |-> 0, y |-> 0, z |-> 1, w |-> 0],
     w_axis |-> [x |-> 0, y |-> 0, z |-> 0, w |-> 1]]

\* the native identity: a1 = b2 = c3 = d4 = 1, every other field 0
AiIdentity ==
    [f \in MatFields |-> IF f \in {"a1", "b2", "c3", "d4"} THEN 1 ELSE 0]

\* the text Display writes for the variants it does not spell out
Placeholder == "unknown error"

(***************************************************************************)
(* C1.  A null base pointer (whatever the length) or a zero length         *)
(* (whatever the pointer) makes each of the six extraction routines return *)
(* an empty sequence, without a panic and without reading native memory;   *)
(* for the channel routines a null slot gives None and a zero length gives *)
(* only None or empty entries.                                             *)
(***************************************************************************)
C1_NullOrZeroIsEmpty ==
    Called =>
        /\ (call.fn \in SingleFns \cup {"get_vec_from_raw"}
                /\ (call.raw = NULL \/ call.len = 0))
            => (outcome = "ok" /\ result = <<>> /\ reads = {})
        /\ (call.fn \in ChannelFns /\ (NonNullSlots = {} \/ call.len = 0))
            => /\ outcome = "ok"
               /\ reads = {}
               /\ \A i \in DOMAIN call.raw :
                    result[i] = None \/ result[i] = Some(<<>>)
        /\ (call.fn \in ChannelFns /\ outcome = "ok")
            => \A i \in DOMAIN call.raw : call.raw[i] = NULL => result[i] = None

C1_Witness ==
    /\ phase = "returned"
    /\ call.fn = "get_vec"
    /\ call.raw = NULL
    /\ call.len = MaxLen
    /\ outcome = "ok"
    /\ result = <<>>

(***************************************************************************)
(* C2.  No extraction routine panics or aborts on an input whose declared  *)
(* length describes the native buffer, null entries of a pointer array     *)
(* included.                                                               *)
(***************************************************************************)
C2_NeverPanics ==
    (Called /\ call.fn \in ExtractionFns \cup TableFns /\ Accurate)
        => outcome = "ok"

(***************************************************************************)
(* C3.  A channel routine returns exactly 8 entries in slot order; entry i *)
(* is None exactly when slot i is null, and a Some entry holds len         *)
(* elements, the j-th converted from the j-th struct behind the slot.      *)
(***************************************************************************)
C3_ChannelEntries ==
    (phase = "returned" /\ call.fn \in ChannelFns /\ Accurate) =>
        /\ outcome = "ok"
        /\ Len(result) = 8
        /\ \A i \in 1..8 :
            /\ (result[i] = None) <=> (call.raw[i] = NULL)
            /\ call.raw[i] # NULL =>
                /\ result[i].tag = "Some"
                /\ Len(result[i].val) = call.len
                /\ \A j \in 1..call.len :
                     result[i].val[j] = Expected(call.fn, mem[call.raw[i] + j - 1])

C3_Witness ==
    /\ phase = "returned"
    /\ call.fn = "get_vec_of_vecs_from_raw"
    /\ call.len = 2
    /\ call.raw[2] = 2
    /\ call.raw[1] = 1
    /\ call.raw[3] = NULL
    /\ mem[1] # mem[2]
    /\ outcome = "ok"
    /\ result[2] # result[1]
    /\ result[3] = None

(***************************************************************************)
(* C4, as stated.  The length of the sequence a channel routine returns    *)
(* equals the number of non-null slots, and each Some entry holds len      *)
(* elements.                                                               *)
(***************************************************************************)
C4_LengthIsNonNullCount ==
    (Called /\ call.fn \in ChannelFns /\ Accurate) =>
        /\ outcome = "ok"
        /\ Len(result) = Cardinality(NonNullSlots)
        /\ \A i \in SomeEntries : Len(result[i].val) = call.len

(***************************************************************************)
(* C4, amended.  The sequence a channel routine returns always has 8       *)
(* entries; the number of its Some entries equals the number of non-null   *)
(* slots, and each Some entry holds len elements.                          *)
(***************************************************************************)
C4_SomeCountIsNonNullCount ==
    (Called /\ call.fn \in ChannelFns /\ Accurate) =>
        /\ outcome = "ok"
        /\ Len(result) = NumSlots
        /\ Cardinality(SomeEntries) = Cardinality(NonNullSlots)
        /\ \A i \in SomeEntries : Len(result[i].val) = call.len

C4_Witness ==
    /\ phase = "returned"
    /\ call.fn = "get_vec_of_vecs_from_raw_2"
    /\ call.len = MaxLen
    /\ Cardinality(NonNullSlots) = 3
    /\ outcome = "ok"
    /\ Cardinality(SomeEntries) = 3
    /\ Len(result) = 8

(***************************************************************************)
(* C5.  get_vec_from_raw on a non-null array of n valid pointers returns   *)
(* n elements, element i converted from the struct entry i points to; on   *)
(* a null array pointer it returns the empty sequence.                     *)
(***************************************************************************)
C5_PointerArray ==
    (phase = "returned" /\ call.fn = "get_vec_from_raw") =>
        /\ call.raw = NULL => (outcome = "ok" /\ result = <<>>)
        /\ (/\ call.raw # NULL
            /\ Within(call.raw, call.len, Len(ptrs))
            /\ \A i \in 1..call.len : ptrs[call.raw + i - 1] # NULL)
            => /\ outcome = "ok"
               /\ Len(result) = call.len
               /\ \A i \in 1..call.len :
                    result[i] = Expected(call.fn, mem[ptrs[call.raw + i - 1]])

C5_Witness ==
    /\ phase = "returned"
    /\ call.fn = "get_vec_from_raw"
    /\ call.raw = 1
    /\ call.len = 3
    /\ mem[3] # mem[1]
    /\ outcome = "ok"
    /\ Len(result) = 3
    /\ result[1] = Expected(call.fn, mem[3])
    /\ result[3] = Expected(call.fn, mem[1])

(***************************************************************************)
(* C6, as stated.  What any extraction helper of utils returned, the       *)
(* helper get_base_type_vec_from_raw included, holds no reference into     *)
(* native memory: releasing the native memory does not change what the     *)
(* result shows.                                                           *)
(***************************************************************************)
C6_AllHelpersOwned ==
    [][(phase = "returned" /\ phase' = "freed" /\ outcome = "ok"
            /\ call.fn \in ExtractionFns \cup TableFns)
        => Observe(result', mem') = Observe(result, mem)]_vars

(***************************************************************************)
(* C6, amended.  What one of the six extraction routines returned holds no *)
(* reference into native memory: releasing the native memory does not      *)
(* change what the result shows.  get_base_type_vec_from_raw is the        *)
(* exception: it returns borrows of the native structs.                    *)
(***************************************************************************)
C6_ExtractionOwned ==
    [][(phase = "returned" /\ phase' = "freed" /\ outcome = "ok"
            /\ call.fn \in ExtractionFns)
        => Observe(result', mem') = Observe(result, mem)]_vars

C6_Witness ==
    /\ phase = "freed"
    /\ call.fn = "get_raw_vec"
    /\ call.raw = 1
    /\ call.len = MaxLen
    /\ outcome = "ok"
    /\ Len(result) = MaxLen
    /\ \A i \in 1..MaxLen : result[i] \in Cells /\ mem[i] = Freed

(***************************************************************************)
(* C7.  The matrix conversion keeps every entry of the matrix: the entry   *)
(* in row r and column c of the target (component r of column c) is the    *)
(* native field of row r (a, b, c, d) and column c (1..4); so the columns  *)
(* are (a1,b1,c1,d1) .. (a4,b4,c4,d4) and the native identity gives the    *)
(* target identity.                                                        *)
(***************************************************************************)
C7_MatrixColumns ==
    (Called /\ call.fn = "convert_into_Mat4") =>
        /\ outcome = "ok"
        /\ \A r \in 1..4, c \in 1..4 :
             Column(result, c)[r] = call.self[NativeField[r][c]]
        /\ call.self = AiIdentity => result = Mat4_IDENTITY

C7_Witness ==
    /\ phase = "returned"
    /\ call.fn = "convert_into_Mat4"
    /\ call.self.b1 = 1
    /\ call.self.a2 = 0
    /\ result.x_axis.y = 1
    /\ result.y_axis.x = 0

(***************************************************************************)
(* C8.  Display renders Import(m) as exactly m and every other variant as  *)
(* one fixed non-empty placeholder, whatever its message.                  *)
(***************************************************************************)
C8_Display ==
    (Called /\ call.fn = "fmt") =>
        /\ outcome = "ok"
        /\ call.self.tag = "Import" => result = call.self.msg
        /\ call.self.tag # "Import" => (result = Placeholder /\ result # "")

C8_Witness ==
    /\ phase = "returned"
    /\ call.fn = "fmt"
    /\ call.self = MetadataError("bad file")
    /\ result = "unknown error"

(***************************************************************************)
(* C9.  Converting a Utf8Error or an IntoStringError into RussimpError     *)
(* gives the Primitive variant carrying the failure's own message text.    *)
(***************************************************************************)
C9_DecodingIsPrimitive ==
    /\ (Called /\ call.fn = "from_Utf8Error") =>
            /\ outcome = "ok"
            /\ result.tag = "Primitive"
            /\ result.msg = Utf8Error_to_string(call.val)
    /\ (Called /\ call.fn = "from_IntoStringError") =>
            /\ outcome = "ok"
            /\ result.tag = "Primitive"
            /\ result.msg = "C string contained non-utf8 bytes"

C9_Witness ==
    /\ phase = "returned"
    /\ call.fn = "from_Utf8Error"
    /\ call.val = Utf8Error(2, 1)
    /\ result = [tag |-> "Primitive",
                 msg |-> "invalid utf-8 sequence of 1 bytes from index 2"]

(***************************************************************************)
(* C10.  get_vec, get_vec_2 and get_raw_vec on a non-null pointer to a     *)
(* buffer of len elements return len elements, element i converted (for    *)
(* get_raw_vec: cloned) from native element i; and get_vec and get_vec_2   *)
(* return sequences of the same length for the same buffer.                *)
(***************************************************************************)
C10_SingleArray ==
    (phase = "returned" /\ call.fn \in SingleFns /\ call.raw # NULL
        /\ Within(call.raw, call.len, MemSize)) =>
        /\ outcome = "ok"
        /\ Len(result) = call.len
        /\ \A i \in 1..call.len :
             result[i] = Expected(call.fn, mem[call.raw + i - 1])
        /\ Len(get_vec(mem, call.raw, call.len, NoUB).value)
                = Len(get_vec_2(mem, call.raw, call.len, NoUB).value)

C10_Witness ==
    /\ phase = "returned"
    /\ call.fn = "get_vec_2"
    /\ call.raw = 2
    /\ call.len = 2
    /\ mem[2] # mem[3]
    /\ outcome = "ok"
    /\ result = <<Vec3_new(mem[2].f[1], mem[2].f[2], mem[2].f[3]),
                  Vec3_new(mem[3].f[1], mem[3].f[2], mem[3].f[3])>>

====
